---------------------------- MODULE Spec2Model ----------------------------
(***************************************************************************)
(* A model of rle_vec's RleVec<T> (src/src/lib.rs): the run table, the     *)
(* lookup over it, the mutation operations and the value iterator.         *)
(*                                                                         *)
(* A run table is a sequence of records [end, value]; Rust position p of   *)
(* the table is element p + 1 of the sequence.  Every operation is an      *)
(* operator from the table and the arguments to a result record            *)
(* [runs, ret, panic]: the table the call leaves behind, what it returns   *)
(* (<<>> for nothing or None, <<x>> for x or Some(x)) and whether it       *)
(* panicked.  The actions of Spec apply these operators to the container.  *)
(*                                                                         *)
(* Run ends are u32.  TLC cannot hold 2^32, so the index type is scaled    *)
(* down to IndexLimit values (0 .. IndexLimit - 1); arithmetic that can    *)
(* leave that range panics when the build checks overflow and wraps        *)
(* modulo IndexLimit when it does not.                                     *)
(***************************************************************************)
EXTENDS Integers, Sequences, FiniteSets, TLC

\* Bounds of the model.
MaxLen == 4
NumValues == 3
IndexLimit == 8
MaxExtend == 2
PairLen == 3

Values == 1 .. NumValues

VARIABLES
    runs,             \* RleVec.runs: the run table
    overflow_checks,  \* build profile: TRUE = debug (overflow panics), FALSE = release (wraps)
    pre,              \* the run table before the last call
    op,               \* the last call: its name and arguments
    ret,              \* what the last call returned
    panicked,         \* the last call panicked
    iter,             \* an Iter over the container and what it has yielded
    other             \* the run table of a second container

vars == <<runs, overflow_checks, pre, op, ret, panicked, iter, other>>

(***************************************************************************)
(* Storage: the GapBuffer of run records, as a sequence.                   *)
(***************************************************************************)
InternalRun(e, v) == [end |-> e, value |-> v]

At(t, p) == t[p + 1]

RunsLen(t) == Len(t)

InsertAt(t, p, r) == SubSeq(t, 1, p) \o <<r>> \o SubSeq(t, p + 1, Len(t))

RemoveAt(t, p) == SubSeq(t, 1, p) \o SubSeq(t, p + 2, Len(t))

\* splice(lo..hi, new): positions lo .. hi - 1 replaced by the records of new
Splice(t, lo, hi, new) == SubSeq(t, 1, lo) \o new \o SubSeq(t, hi + 1, Len(t))

SetEnd(t, p, e) == [t EXCEPT ![p + 1].end = e]

SetValue(t, p, v) == [t EXCEPT ![p + 1].value = v]

Result(t, r, pn) == [runs |-> t, ret |-> r, panic |-> pn]

RunsLast(t) == t[Len(t)]

LenOf(t) == IF Len(t) = 0 THEN 0 ELSE RunsLast(t).end + 1

IsEmpty(t) == Len(t) = 0

(***************************************************************************)
(* Lookup.                                                                 *)
(***************************************************************************)
\* slice::binary_search_by(|run| run.end.cmp(&index)) over positions left .. right - 1
RECURSIVE BinarySearch(_, _, _, _)
BinarySearch(s, left, right, index) ==
    IF left >= right THEN [found |-> FALSE, pos |-> left]
    ELSE LET mid == left + ((right - left) \div 2)
         IN IF At(s, mid).end < index THEN BinarySearch(s, mid + 1, right, index)
            ELSE IF At(s, mid).end > index THEN BinarySearch(s, left, mid, index)
            ELSE [found |-> TRUE, pos |-> mid]

RunIndex_NoOffset(t, index, gap) ==
    LET lesser == SubSeq(t, 1, gap)
        greater == SubSeq(t, gap + 1, Len(t))
        inLesser == Len(lesser) > 0 /\ index <= lesser[Len(lesser)].end
        target == IF inLesser THEN lesser ELSE greater
        r == BinarySearch(target, 0, Len(target), index)
    IN  IF r.found \/ r.pos < Len(target)
        THEN [panic |-> FALSE, p |-> r.pos]
        ELSE [panic |-> TRUE, p |-> 0]

\* run_index with the storage gap after the first `gap` records
RunIndex(t, index, gap) ==
    LET lesser == SubSeq(t, 1, gap)
        greater == SubSeq(t, gap + 1, Len(t))
        inLesser == Len(lesser) > 0 /\ index <= lesser[Len(lesser)].end
        target == IF inLesser THEN lesser ELSE greater
        offset == IF inLesser \/ Len(lesser) = 0 THEN 0 ELSE Len(lesser)
        r == BinarySearch(target, 0, Len(target), index)
    IN  IF r.found \/ r.pos < Len(target)
        THEN [panic |-> FALSE, p |-> r.pos + offset]
        ELSE [panic |-> TRUE, p |-> 0]

IndexInfo(t, index, gap) ==
    LET r == RunIndex(t, index, gap)
    IN  IF r.panic THEN [panic |-> TRUE, p |-> 0, start |-> 0, end |-> 0]
        ELSE IF r.p = 0
        THEN [panic |-> FALSE, p |-> 0, start |-> 0, end |-> At(t, 0).end]
        ELSE [panic |-> FALSE, p |-> r.p, start |-> At(t, r.p - 1).end + 1,
              end |-> At(t, r.p).end]

\* Index<usize>::index; <<>> stands for the panic
IndexRead(t, index, gap) ==
    LET r == RunIndex(t, index, gap)
    IN  IF r.panic THEN <<>> ELSE <<At(t, r.p).value>>

\* the public run_index: the position, or the panic
RunIndexCall(t, index, gap) ==
    LET r == RunIndex(t, index, gap)
    IN  Result(t, IF r.panic THEN <<>> ELSE <<r.p>>, r.panic)

IndexCall(t, index, gap) ==
    Result(t, IndexRead(t, index, gap), IndexRead(t, index, gap) = <<>>)

\* get_hint: the hinted record is read before the hint is examined
GetHint(t, index, run_index_hint, gap, checks) ==
    LET hinted_run == At(t, run_index_hint)
        hinted_start == IF run_index_hint > 0
                        THEN At(t, run_index_hint - 1).end + 1 ELSE 0
        r == RunIndex(t, index, gap)
    IN  IF run_index_hint >= Len(t) THEN Result(t, <<>>, TRUE)
        ELSE IF checks /\ ~(hinted_start <= hinted_run.end) THEN Result(t, <<>>, TRUE)
        ELSE IF hinted_start <= index /\ hinted_run.end >= index
        THEN Result(t, <<hinted_run.value, run_index_hint>>, FALSE)
        ELSE IF r.panic THEN Result(t, <<>>, TRUE)
        ELSE Result(t, <<At(t, r.p).value, r.p>>, FALSE)

\* repeat(value).take(n)
RECURSIVE Repeat(_, _)
Repeat(value, n) == IF n = 0 THEN <<>> ELSE <<value>> \o Repeat(value, n - 1)

\* to_vec: every run expanded to end - p + 1 copies of its value
RECURSIVE ToVecFrom(_, _, _)
ToVecFrom(t, k, p) ==
    IF k > Len(t) THEN <<>>
    ELSE LET n == (t[k].end - p + 1) % IndexLimit
         IN  Repeat(t[k].value, n) \o ToVecFrom(t, k + 1, (p + n) % IndexLimit)

ToVec(t) == ToVecFrom(t, 1, 0)

(***************************************************************************)
(* Append.                                                                 *)
(***************************************************************************)
PushN_AlwaysAppends(t, n, value, checks) ==
    IF n = 0 THEN Result(t, <<>>, FALSE)
    ELSE IF LenOf(t) + n > IndexLimit /\ checks THEN Result(t, <<>>, TRUE)
    ELSE Result(Append(t, InternalRun((LenOf(t) + n - 1) % IndexLimit, value)),
                <<>>, FALSE)

PushN(t, n, value, checks) ==
    IF n = 0 THEN Result(t, <<>>, FALSE)
    ELSE IF Len(t) = 0 THEN Result(Append(t, InternalRun(n - 1, value)), <<>>, FALSE)
    ELSE IF RunsLast(t).end + n >= IndexLimit /\ checks THEN Result(t, <<>>, TRUE)
    ELSE IF RunsLast(t).value = value
    THEN Result(SetEnd(t, Len(t) - 1, (RunsLast(t).end + n) % IndexLimit), <<>>, FALSE)
    ELSE Result(Append(t, InternalRun((RunsLast(t).end + n) % IndexLimit, value)),
                <<>>, FALSE)

Push(t, value, checks) == PushN(t, 1, value, checks)

\* the loop of extend over the values after the first
RECURSIVE ExtendLoop(_, _, _, _)
ExtendLoop(t, rle_last, values, k) ==
    IF k > Len(values) THEN Append(t, rle_last)
    ELSE IF values[k] # rle_last.value
    THEN ExtendLoop(Append(t, rle_last), InternalRun(rle_last.end + 1, values[k]),
                    values, k + 1)
    ELSE ExtendLoop(t, InternalRun(rle_last.end + 1, rle_last.value), values, k + 1)

Extend_NeverPops(t, values) ==
    IF Len(values) = 0 THEN Result(t, <<>>, FALSE)
    ELSE Result(ExtendLoop(t, InternalRun(LenOf(t), values[1]), values, 2), <<>>, FALSE)

Extend(t, values) ==
    IF Len(values) = 0 THEN Result(t, <<>>, FALSE)
    ELSE LET pop == Len(t) > 0 /\ RunsLast(t).value = values[1]
             end == IF Len(t) > 0 THEN RunsLast(t).end + 1 ELSE 0
             rest == IF pop THEN SubSeq(t, 1, Len(t) - 1) ELSE t
             rle_last == InternalRun(end, values[1])
         IN  Result(ExtendLoop(rest, rle_last, values, 2), <<>>, FALSE)

\* a Run handed to extend: its start is ignored
Run(len, value) == [len |-> len, value |-> value]

RECURSIVE ExtendRuns_AppendsRecords(_, _, _)
ExtendRuns_AppendsRecords(t, rs, checks) ==
    IF Len(rs) = 0 THEN Result(t, <<>>, FALSE)
    ELSE IF rs[1].len = 0 THEN ExtendRuns_AppendsRecords(t, Tail(rs), checks)
    ELSE ExtendRuns_AppendsRecords(
             Append(t, InternalRun((LenOf(t) + rs[1].len - 1) % IndexLimit, rs[1].value)),
             Tail(rs), checks)

\* Extend<Run<T>>::extend: push_n(len, value) for every run, in order
RECURSIVE ExtendRuns(_, _, _)
ExtendRuns(t, rs, checks) ==
    IF Len(rs) = 0 THEN Result(t, <<>>, FALSE)
    ELSE LET r == PushN(t, rs[1].len, rs[1].value, checks)
         IN  IF r.panic THEN r ELSE ExtendRuns(r.runs, Tail(rs), checks)

(***************************************************************************)
(* Point write.                                                            *)
(***************************************************************************)
SetSingle_JoinsNextUnchecked(t, value, p) ==
    LET joinPrev == p > 0 /\ At(t, p - 1).value = value
        t1 == IF joinPrev
              THEN SetEnd(RemoveAt(t, p), p - 1, At(t, p - 1).end + 1)
              ELSE t
        p1 == IF joinPrev THEN p - 1 ELSE p
    IN  IF p1 < Len(t1) - 1 /\ (joinPrev \/ At(t1, p1 + 1).value = value)
        THEN RemoveAt(t1, p1)
        ELSE SetValue(t1, p1, value)

\* set_internal, run of length 1: joined with the previous run, the next run, or rewritten
SetSingle(t, value, p) ==
    LET joinPrev == p > 0 /\ At(t, p - 1).value = value
        t1 == IF joinPrev
              THEN SetEnd(RemoveAt(t, p), p - 1, At(t, p - 1).end + 1)
              ELSE t
        p1 == IF joinPrev THEN p - 1 ELSE p
    IN  IF p1 < Len(t1) - 1 /\ At(t1, p1 + 1).value = value
        THEN RemoveAt(t1, p1)
        ELSE SetValue(t1, p1, value)

SetAtStart_NeverJoins(t, value, p, start) ==
    InsertAt(t, p, InternalRun(start, value))

\* set_internal, index is the first element of a longer run
SetAtStart(t, value, p, start) ==
    IF p > 0
    THEN IF At(t, p - 1).value = value
         THEN SetEnd(t, p - 1, At(t, p - 1).end + 1)
         ELSE InsertAt(t, p, InternalRun(start, value))
    ELSE InsertAt(t, 0, InternalRun(0, value))

\* set_internal, index is the last element of a longer run
SetAtEnd(t, value, p, end) ==
    LET t1 == SetEnd(t, p, At(t, p).end - 1)
    IN  IF p < Len(t1) - 1 /\ At(t1, p + 1).value = value
        THEN t1
        ELSE InsertAt(t1, p + 1, InternalRun(end, value))

\* set_internal, index is inside a longer run: the run is split in three
SetSplit_TailLost(t, index, value, p, end) ==
    InsertAt(SetEnd(t, p, index - 1), p + 1, InternalRun(index, value))

SetSplit(t, index, value, p, end) ==
    LET t1 == SetEnd(t, p, index - 1)
        v == At(t1, p).value
    IN  InsertAt(InsertAt(t1, p + 1, InternalRun(index, value)),
                 p + 2, InternalRun(end, v))

SetInternal(t, index, value, p, start, end) ==
    IF At(t, p).value = value THEN t
    ELSE IF end - start = 0 THEN SetSingle(t, value, p)
    ELSE IF index = start THEN SetAtStart(t, value, p, start)
    ELSE IF index = end THEN SetAtEnd(t, value, p, end)
    ELSE SetSplit(t, index, value, p, end)

Set(t, index, value, gap) ==
    LET i == IndexInfo(t, index, gap)
    IN  IF index >= IndexLimit \/ i.panic THEN Result(t, <<>>, TRUE)
        ELSE Result(SetInternal(t, index, value, i.p, i.start, i.end), <<>>, FALSE)

SetHint_TrustsHint(t, index, value, run_index_hint, gap) ==
    LET hinted_start == IF run_index_hint > 0
                        THEN At(t, run_index_hint - 1).end + 1 ELSE 0
        i == IndexInfo(t, index, gap)
    IN  IF index >= IndexLimit THEN Result(t, <<>>, TRUE)
        ELSE IF run_index_hint < Len(t)
        THEN Result(SetInternal(t, index, value, run_index_hint, hinted_start,
                                At(t, run_index_hint).end),
                    <<run_index_hint>>, FALSE)
        ELSE IF i.panic THEN Result(t, <<>>, TRUE)
        ELSE Result(SetInternal(t, index, value, i.p, i.start, i.end), <<i.p>>, FALSE)

SetHint(t, index, value, run_index_hint, gap) ==
    LET hinted_start == IF run_index_hint > 0
                        THEN At(t, run_index_hint - 1).end + 1 ELSE 0
        i == IndexInfo(t, index, gap)
    IN  IF index >= IndexLimit THEN Result(t, <<>>, TRUE)
        ELSE IF /\ run_index_hint < Len(t)
                /\ hinted_start <= index
                /\ At(t, run_index_hint).end >= index
        THEN Result(SetInternal(t, index, value, run_index_hint, hinted_start,
                                At(t, run_index_hint).end),
                    <<run_index_hint>>, FALSE)
        ELSE IF i.panic THEN Result(t, <<>>, TRUE)
        ELSE Result(SetInternal(t, index, value, i.p, i.start, i.end), <<i.p>>, FALSE)

(***************************************************************************)
(* Range write.                                                            *)
(***************************************************************************)
FlushLeft(t, start, start_run_idx) ==
    IF start_run_idx = 0 THEN start = 0
    ELSE start = At(t, start_run_idx - 1).end + 1

FlushRight_Always(t, end, end_run_idx) == TRUE

FlushRight(t, end, end_run_idx) == end = At(t, end_run_idx).end

\* set_range_internal, the span lies in one run
SetRangeOneRun(t, start, idx, end, value, flush_left, flush_right) ==
    IF flush_left /\ flush_right THEN SetValue(t, idx, value)
    ELSE IF flush_left THEN InsertAt(t, idx, InternalRun(end, value))
    ELSE IF flush_right
    THEN InsertAt(SetEnd(t, idx, start - 1), idx + 1, InternalRun(end, value))
    ELSE LET existing == At(t, idx)
         IN  Splice(SetEnd(t, idx, start - 1), idx + 1, idx + 1,
                    <<InternalRun(end, value), existing>>)

\* set_range_internal, the span covers several runs
SetRangeManyRuns(t, start, start_run_idx, end, end_run_idx, value, flush_left, flush_right) ==
    LET lo == IF flush_left THEN start_run_idx ELSE start_run_idx + 1
        hi == IF flush_right THEN end_run_idx + 1 ELSE end_run_idx
        t1 == Splice(t, lo, hi, <<InternalRun(end, value)>>)
    IN  IF flush_left THEN t1 ELSE SetEnd(t1, start_run_idx, start - 1)

SetRangeInternal(t, start, start_run_idx, end, end_run_idx, value, checks) ==
    LET flush_left == FlushLeft(t, start, start_run_idx)
        flush_right == FlushRight(t, end, end_run_idx)
    IN  IF checks /\ (end < start \/ end_run_idx < start_run_idx)
        THEN Result(t, <<>>, TRUE)
        ELSE IF start_run_idx = end_run_idx
        THEN IF checks /\ (~flush_right) /\ ~(end < At(t, start_run_idx).end)
             THEN Result(t, <<>>, TRUE)
             ELSE Result(SetRangeOneRun(t, start, start_run_idx, end, value,
                                        flush_left, flush_right), <<>>, FALSE)
        ELSE Result(SetRangeManyRuns(t, start, start_run_idx, end, end_run_idx,
                                     value, flush_left, flush_right), <<>>, FALSE)

\* set_range after the left run is located: start and end snapped, neighbours absorbed
SetRangeLocated(t, start0, end0, value, left, gap, checks) ==
    LET start1 == IF start0 >= left.start /\ At(t, left.p).value = value
                  THEN left.start ELSE start0
        absorbPrev == /\ start1 = left.start
                      /\ left.p > 0
                      /\ At(t, left.p - 1).value = value
        start_run_idx == IF absorbPrev THEN left.p - 1 ELSE left.p
        start == IF ~absorbPrev THEN start1
                 ELSE IF left.p = 1 THEN 0
                 ELSE At(t, left.p - 2).end + 1
    IN  IF end0 <= left.end
        THEN LET end1 == IF At(t, left.p).value = value THEN left.end ELSE end0
                 absorbNext == /\ left.end = end1
                               /\ left.p + 1 < Len(t)
                               /\ At(t, left.p + 1).value = value
                 end_run_idx == IF absorbNext THEN left.p + 1 ELSE left.p
                 end == IF absorbNext THEN At(t, end_run_idx).end ELSE end1
             IN  SetRangeInternal(t, start, start_run_idx, end, end_run_idx, value,
                                  checks)
        ELSE LET right == IndexInfo(t, end0, gap)
                 end1 == IF end0 < right.end /\ At(t, right.p).value = value
                         THEN right.end ELSE end0
                 absorbNext == /\ right.end <= end1
                               /\ right.p + 1 < Len(t)
                               /\ At(t, right.p + 1).value = value
                 end_run_idx == IF absorbNext THEN right.p + 1 ELSE right.p
                 end == IF absorbNext THEN At(t, end_run_idx).end ELSE end1
             IN  IF right.panic THEN Result(t, <<>>, TRUE)
                 ELSE SetRangeInternal(t, start, start_run_idx, end, end_run_idx,
                                       value, checks)

SetRange(t, start, len, value, gap, checks) ==
    IF len = 0 THEN Result(t, <<>>, FALSE)
    ELSE IF len = 1 THEN Set(t, start, value, gap)
    ELSE IF checks /\ start + len >= IndexLimit THEN Result(t, <<>>, TRUE)
    ELSE LET end0 == (start + len - 1) % IndexLimit
             left == IndexInfo(t, start, gap)
         IN  IF left.panic THEN Result(t, <<>>, TRUE)
             ELSE SetRangeLocated(t, start, end0, value, left, gap, checks)

(***************************************************************************)
(* Removal and insertion.                                                  *)
(***************************************************************************)
\* the loop over range_mut(p..) adding d to every end, wrapping in the index type
RECURSIVE ShiftEnds(_, _, _)
ShiftEnds(t, p, d) ==
    IF p >= Len(t) THEN t
    ELSE ShiftEnds(SetEnd(t, p, (At(t, p).end + d) % IndexLimit), p + 1, d)

\* remove, after the record of a run of length 1 was deleted: the runs now adjacent
\* at p - 1 and p are merged when their values are equal
RemoveMerge(t, p) ==
    IF p > 0 /\ RunsLen(t) > 2
    THEN IF p >= Len(t) THEN [runs |-> t, panic |-> TRUE]
         ELSE IF At(t, p - 1).value = At(t, p).value
         THEN [runs |-> RemoveAt(SetEnd(t, p - 1, At(t, p).end), p), panic |-> FALSE]
         ELSE [runs |-> t, panic |-> FALSE]
    ELSE [runs |-> t, panic |-> FALSE]

Remove(t, index, gap, checks) ==
    LET i == IndexInfo(t, index, gap)
        t1 == ShiftEnds(t, i.p, -1)
        m == RemoveMerge(RemoveAt(t1, i.p), i.p)
    IN  IF i.panic THEN Result(t, <<>>, TRUE)
        ELSE IF checks /\ At(t, i.p).end = 0 THEN Result(t, <<>>, TRUE)
        ELSE IF i.end - i.start = 0
        THEN Result(m.runs, IF m.panic THEN <<>> ELSE <<At(t1, i.p).value>>, m.panic)
        ELSE Result(t1, <<At(t1, i.p).value>>, FALSE)

InsertShift_AfterRun(t, p) == ShiftEnds(t, p + 1, 1)

\* insert: the loop over range_mut(p..) that opens the slot
InsertShift(t, p) == ShiftEnds(t, p, 1)

Insert(t, index, value, gap, checks) ==
    IF index = LenOf(t) THEN Push(t, value, checks)
    ELSE LET i == IndexInfo(t, index, gap)
             t1 == InsertShift(t, i.p)
         IN  IF index >= IndexLimit \/ i.panic THEN Result(t, <<>>, TRUE)
             ELSE IF checks /\ RunsLast(t).end + 1 >= IndexLimit
             THEN Result(t, <<>>, TRUE)
             ELSE IF At(t1, i.p).value = value THEN Result(t1, <<>>, FALSE)
             ELSE IF index = i.start
             THEN IF i.p > 0 /\ At(t1, i.p - 1).value = value
                  THEN Result(SetEnd(t1, i.p - 1, At(t1, i.p - 1).end + 1),
                              <<>>, FALSE)
                  ELSE Result(InsertAt(t1, i.p, InternalRun(index, value)),
                              <<>>, FALSE)
             ELSE Result(InsertAt(InsertAt(SetEnd(t1, i.p, index - 1), i.p + 1,
                                           InternalRun(index, value)),
                                  i.p + 2, InternalRun(i.end + 1, At(t1, i.p).value)),
                         <<>>, FALSE)

Clear(t) == Result(<<>>, <<>>, FALSE)

\* From<&[T]>: one pass over the slice, a record pushed at every change of value
RECURSIVE FromSliceLoop(_, _, _, _)
FromSliceLoop(t, last_value, slice, k) ==
    IF k > Len(slice) THEN Append(t, InternalRun(Len(slice) - 1, last_value))
    ELSE IF slice[k] # last_value
    THEN FromSliceLoop(Append(t, InternalRun(k - 2, last_value)), slice[k], slice, k + 1)
    ELSE FromSliceLoop(t, last_value, slice, k + 1)

FromSlice_LoopFromThird(slice) ==
    IF Len(slice) = 0 THEN <<>> ELSE FromSliceLoop(<<>>, slice[1], slice, 3)

FromSlice(slice) ==
    IF Len(slice) = 0 THEN <<>> ELSE FromSliceLoop(<<>>, slice[1], slice, 2)

(***************************************************************************)
(* The container under any sequence of public mutations.                   *)
(***************************************************************************)
SeqsUpTo(S, n) == UNION {[1 .. k -> S] : k \in 0 .. n}

\* the elements a sequence of runs stands for
RECURSIVE FlattenRuns(_)
FlattenRuns(rs) ==
    IF Len(rs) = 0 THEN <<>>
    ELSE Repeat(rs[1].value, rs[1].len) \o FlattenRuns(Tail(rs))

\* I1: the ends are strictly increasing
EndsIncreasing(t) == \A k \in 1 .. Len(t) - 1 : t[k].end < t[k + 1].end

\* I2: no two adjacent records have equal values
NoAdjacentEqual(t) == \A k \in 1 .. Len(t) - 1 : t[k].value # t[k + 1].value

Call(name, index, n, value, hint, values) ==
    [name |-> name, index |-> index, n |-> n, value |-> value, hint |-> hint,
     values |-> values]

NoCall == Call("new", 0, 0, 0, 0, <<>>)

NoIter == [active |-> FALSE, run_index |-> 0, index |-> 0, index_back |-> 0,
           run_index_back |-> 0, front |-> <<>>, back |-> <<>>, last |-> <<>>,
           called |-> "none"]

\* A call is made on a container that no earlier call left by a panic, once the
\* record of the call before it is dropped (Forget).  Once an end has wrapped, the
\* ends are no longer ordered and the binary search of run_index has no defined
\* result: the model follows the container no further.
CanCall == op = NoCall /\ ~panicked /\ EndsIncreasing(runs)

Apply(call, res) ==
    \E r \in res :
        /\ runs' = r.runs
        /\ ret' = r.ret
        /\ panicked' = r.panic
        /\ pre' = runs
        /\ op' = call
        /\ UNCHANGED <<overflow_checks, iter, other>>

Init ==
    /\ runs = <<>>
    /\ overflow_checks \in BOOLEAN
    /\ pre = <<>>
    /\ op = NoCall
    /\ ret = <<>>
    /\ panicked = FALSE
    /\ iter = NoIter
    /\ other = <<>>

DoPush ==
    /\ CanCall
    /\ \E v \in Values :
        /\ LenOf(runs) < MaxLen
        /\ Apply(Call("push", 0, 1, v, 0, <<>>), {Push(runs, v, overflow_checks)})

\* n is any count that keeps the length within MaxLen, or one that overflows the index type
DoPushN ==
    /\ CanCall
    /\ \E n \in 0 .. IndexLimit - 1, v \in Values :
        /\ \/ LenOf(runs) + n <= MaxLen
           \/ Len(runs) > 0 /\ RunsLast(runs).end + n >= IndexLimit
        /\ Apply(Call("push_n", 0, n, v, 0, <<>>), {PushN(runs, n, v, overflow_checks)})

DoExtend ==
    /\ CanCall
    /\ \E values \in SeqsUpTo(Values, MaxExtend) :
        /\ LenOf(runs) + Len(values) <= MaxLen
        /\ Apply(Call("extend", 0, 0, 0, 0, values), {Extend(runs, values)})

\* extend with runs of up to MaxExtend elements each
DoExtendRuns ==
    /\ CanCall
    /\ \E rs \in SeqsUpTo({Run(len, v) : len \in 0 .. MaxExtend, v \in Values}, MaxExtend) :
        /\ LenOf(runs) + Len(FlattenRuns(rs)) <= MaxLen
        /\ Apply(Call("extend_runs", 0, 0, 0, 0, rs), {ExtendRuns(runs, rs, overflow_checks)})

DoSet ==
    /\ CanCall
    /\ \E index \in 0 .. LenOf(runs), v \in Values :
        /\ Apply(Call("set", index, 0, v, 0, <<>>), {Set(runs, index, v, gap) : gap \in 0 .. Len(runs)})

DoSetHint ==
    /\ CanCall
    /\ \E index \in 0 .. LenOf(runs), v \in Values, hint \in 0 .. Len(runs) :
        /\ Apply(Call("set_hint", index, 0, v, hint, <<>>),
                 {SetHint(runs, index, v, hint, gap) : gap \in 0 .. Len(runs)})

\* len runs up to one element past the end of the container, or is the largest
\* count of the index type (start + len - 1 then leaves the index type)
DoSetRange ==
    /\ CanCall
    /\ \E start \in 0 .. LenOf(runs), len \in 0 .. IndexLimit - 1, v \in Values :
        /\ start + len <= LenOf(runs) + 1 \/ len = IndexLimit - 1
        /\ Apply(Call("set_range", start, len, v, 0, <<>>),
                 {SetRange(runs, start, len, v, gap, overflow_checks) :
                     gap \in 0 .. Len(runs)})

DoInsert ==
    /\ CanCall
    /\ \E index \in 0 .. LenOf(runs) + 1, v \in Values :
        /\ LenOf(runs) < MaxLen
        /\ Apply(Call("insert", index, 0, v, 0, <<>>),
                 {Insert(runs, index, v, gap, overflow_checks) : gap \in 0 .. Len(runs)})

\* remove is also called right after an insert, with the insert still on record
DoRemove ==
    /\ CanCall \/ (op.name = "insert" /\ ~panicked /\ EndsIncreasing(runs))
    /\ \E index \in 0 .. LenOf(runs) :
        /\ Apply(Call("remove", index, 0, 0, 0, <<>>),
                 {Remove(runs, index, gap, overflow_checks) : gap \in 0 .. Len(runs)})

DoClear ==
    /\ CanCall
    /\ Apply(Call("clear", 0, 0, 0, 0, <<>>), {Clear(runs)})

\* rle[index]
DoIndex ==
    /\ CanCall
    /\ \E index \in 0 .. LenOf(runs) :
        /\ Apply(Call("index", index, 0, 0, 0, <<>>),
                 {IndexCall(runs, index, gap) : gap \in 0 .. Len(runs)})

DoRunIndex ==
    /\ CanCall
    /\ \E index \in 0 .. LenOf(runs) :
        /\ Apply(Call("run_index", index, 0, 0, 0, <<>>),
                 {RunIndexCall(runs, index, gap) : gap \in 0 .. Len(runs)})

DoGetHint ==
    /\ CanCall
    /\ \E index \in 0 .. LenOf(runs), hint \in 0 .. Len(runs) :
        /\ Apply(Call("get_hint", index, 0, 0, hint, <<>>),
                 {GetHint(runs, index, hint, gap, overflow_checks) :
                     gap \in 0 .. Len(runs)})

\* the caller drops the result of the last call; the container is as the call left it
Forget ==
    /\ op # NoCall
    /\ ~panicked
    /\ pre' = <<>>
    /\ op' = NoCall
    /\ ret' = <<>>
    /\ UNCHANGED <<runs, overflow_checks, panicked, iter, other>>

Next ==
    \/ Forget
    \/ DoPush
    \/ DoPushN
    \/ DoExtend
    \/ DoExtendRuns
    \/ DoSet
    \/ DoSetHint
    \/ DoSetRange
    \/ DoInsert
    \/ DoRemove
    \/ DoClear
    \/ DoIndex
    \/ DoRunIndex
    \/ DoGetHint

Spec == Init /\ [][Next]_vars

\* the variables keep their shapes, and the length stays within the model's cap
\* wherever the ends are ordered
TypeOK ==
    /\ \A k \in 1 .. Len(runs) : runs[k].end \in 0 .. IndexLimit - 1 /\ runs[k].value \in Values
    /\ EndsIncreasing(runs) => LenOf(runs) <= MaxLen
    /\ panicked \in BOOLEAN

(***************************************************************************)
(* The value iterator, over a container that stays borrowed while the      *)
(* iterator lives.                                                         *)
(***************************************************************************)
\* iter() / into_iter()
IterNew(t) ==
    [active |-> TRUE, run_index |-> 0, index |-> 0, index_back |-> LenOf(t),
     run_index_back |-> IF Len(t) = 0 THEN 0 ELSE Len(t) - 1,
     front |-> <<>>, back |-> <<>>, last |-> <<>>, called |-> "none"]

\* Iter::next: the cursors it leaves, what it returns, whether it panicked
IterNext(t, it) ==
    IF it.index = it.index_back
    THEN [run_index |-> it.run_index, index |-> it.index, ret |-> <<>>, panic |-> FALSE]
    ELSE IF it.run_index >= Len(t)
    THEN [run_index |-> it.run_index, index |-> it.index, ret |-> <<>>, panic |-> TRUE]
    ELSE LET run == At(t, it.run_index)
         IN  [run_index |-> IF it.index + 1 > run.end THEN it.run_index + 1
                            ELSE it.run_index,
              index |-> it.index + 1, ret |-> <<run.value>>, panic |-> FALSE]

BackRunIndex_Late(t, run_index_back, index_back) ==
    IF run_index_back > 0 /\ index_back < At(t, run_index_back - 1).end
    THEN run_index_back - 1 ELSE run_index_back

\* next_back: the run the backward cursor is in once index_back has stepped down
BackRunIndex(t, run_index_back, index_back) ==
    IF run_index_back > 0 /\ index_back <= At(t, run_index_back - 1).end
    THEN run_index_back - 1 ELSE run_index_back

\* DoubleEndedIterator::next_back; index_back -= 1 at 0 panics when overflow is
\* checked and wraps when it is not
IterNextBack(t, it, checks) ==
    IF it.index_back = it.index
    THEN [run_index_back |-> it.run_index_back, index_back |-> it.index_back,
          ret |-> <<>>, panic |-> FALSE]
    ELSE IF checks /\ it.index_back = 0
    THEN [run_index_back |-> it.run_index_back, index_back |-> it.index_back,
          ret |-> <<>>, panic |-> TRUE]
    ELSE LET ib == (it.index_back - 1) % IndexLimit
             rb == BackRunIndex(t, it.run_index_back, ib)
         IN  IF rb >= Len(t)
             THEN [run_index_back |-> rb, index_back |-> ib, ret |-> <<>>,
                   panic |-> TRUE]
             ELSE [run_index_back |-> rb, index_back |-> ib,
                   ret |-> <<At(t, rb).value>>, panic |-> FALSE]

\* the tables an iterator is taken over: built from a slice, and such a table after
\* one remove
IterTables ==
    LET built == {FromSlice(sl) : sl \in SeqsUpTo(Values, MaxLen)}
    IN  built \cup
        {Remove(t, i, 0, FALSE).runs : <<t, i>> \in
            {<<t, i>> \in built \X (0 .. MaxLen - 1) :
                i < LenOf(t) /\ ~Remove(t, i, 0, FALSE).panic}}

IterInit ==
    /\ runs \in IterTables
    /\ overflow_checks \in BOOLEAN
    /\ pre = <<>>
    /\ op = NoCall
    /\ ret = <<>>
    /\ panicked = FALSE
    /\ iter = IterNew(runs)
    /\ other = <<>>

IterDoNext ==
    /\ iter.active
    /\ ~panicked
    /\ \E r \in {IterNext(runs, iter)} :
        /\ iter' = [iter EXCEPT !.run_index = r.run_index, !.index = r.index,
                                !.front = @ \o r.ret, !.last = r.ret,
                                !.called = "next"]
        /\ panicked' = r.panic
    /\ UNCHANGED <<runs, overflow_checks, pre, op, ret, other>>

IterDoNextBack ==
    /\ iter.active
    /\ ~panicked
    /\ \E r \in {IterNextBack(runs, iter, overflow_checks)} :
        /\ iter' = [iter EXCEPT !.run_index_back = r.run_index_back,
                                !.index_back = r.index_back,
                                !.back = @ \o r.ret, !.last = r.ret,
                                !.called = "next_back"]
        /\ panicked' = r.panic
    /\ UNCHANGED <<runs, overflow_checks, pre, op, ret, other>>

IterNextStep ==
    \/ IterDoNext
    \/ IterDoNextBack

SpecIter == IterInit /\ [][IterNextStep]_vars

(***************************************************************************)
(* The value iterator with its positional and counting methods.            *)
(***************************************************************************)
\* Iter::size_hint: both bounds are len() - index, a subtraction that panics below 0
\* when overflow is checked and wraps when it is not
SizeHint(t, it, checks) ==
    IF checks /\ it.index > LenOf(t) THEN [ret |-> <<>>, panic |-> TRUE]
    ELSE [ret |-> <<(LenOf(t) - it.index) % IndexLimit>>, panic |-> FALSE]

\* Iter::nth with the storage gap after the first `gap` records: the iterator it
\* leaves, what it returns, whether it panicked
IterNth(t, it, n, gap, checks) ==
    LET rle_len == LenOf(t)
        sum == (it.index + n) % IndexLimit
        index == IF sum < rle_len THEN sum ELSE rle_len
        r == RunIndex(t, index, gap)
        new_run_index == IF index < rle_len THEN r.p
                         ELSE (Len(t) - 1) % IndexLimit
        moved == [it EXCEPT !.index = index, !.run_index = new_run_index]
        nx == IterNext(t, moved)
    IN  IF checks /\ it.index + n >= IndexLimit
        THEN [it |-> it, ret |-> <<>>, panic |-> TRUE]
        ELSE IF (index < rle_len /\ r.panic) \/ (index >= rle_len /\ checks /\ Len(t) = 0)
        THEN [it |-> [it EXCEPT !.index = index], ret |-> <<>>, panic |-> TRUE]
        ELSE [it |-> [moved EXCEPT !.index = nx.index, !.run_index = nx.run_index],
              ret |-> nx.ret, panic |-> nx.panic]

\* In this specification the iterator keeps its cursors and the last call with its
\* result, not the elements it has yielded so far.  nth is called with an n that
\* keeps index + n within the index type.
IterCallNext ==
    /\ iter.active
    /\ ~panicked
    /\ \E r \in {IterNext(runs, iter)} :
        /\ iter' = [iter EXCEPT !.run_index = r.run_index, !.index = r.index,
                                !.last = r.ret, !.called = "next"]
        /\ ret' = r.ret
        /\ panicked' = r.panic
    /\ op' = Call("next", 0, 0, 0, 0, <<>>)
    /\ UNCHANGED <<runs, overflow_checks, pre, other>>

IterCallNextBack ==
    /\ iter.active
    /\ ~panicked
    /\ \E r \in {IterNextBack(runs, iter, overflow_checks)} :
        /\ iter' = [iter EXCEPT !.run_index_back = r.run_index_back,
                                !.index_back = r.index_back,
                                !.last = r.ret, !.called = "next_back"]
        /\ ret' = r.ret
        /\ panicked' = r.panic
    /\ op' = Call("next_back", 0, 0, 0, 0, <<>>)
    /\ UNCHANGED <<runs, overflow_checks, pre, other>>

IterCallSizeHint ==
    /\ iter.active
    /\ ~panicked
    /\ iter.called # "size_hint"
    /\ ret' = SizeHint(runs, iter, overflow_checks).ret
    /\ panicked' = SizeHint(runs, iter, overflow_checks).panic
    /\ iter' = [iter EXCEPT !.last = <<>>, !.called = "size_hint"]
    /\ op' = Call("size_hint", 0, 0, 0, 0, <<>>)
    /\ UNCHANGED <<runs, overflow_checks, pre, other>>

IterCallNth ==
    /\ iter.active
    /\ ~panicked
    /\ \E n \in 0 .. MaxLen - 1 :
        \E r \in {IterNth(runs, iter, n, gap, overflow_checks) : gap \in 0 .. Len(runs)} :
            /\ iter.index + n < IndexLimit
            /\ iter' = [r.it EXCEPT !.last = r.ret, !.called = "nth"]
            /\ ret' = r.ret
            /\ panicked' = r.panic
            /\ op' = Call("nth", 0, n, 0, 0, <<>>)
    /\ UNCHANGED <<runs, overflow_checks, pre, other>>

\* Iter::last: None when index has reached len(), the last element of the
\* container otherwise
IterLast(t, it) ==
    IF it.index = LenOf(t) THEN <<>>
    ELSE IF Len(t) = 0 THEN <<>>
    ELSE <<RunsLast(t).value>>

\* last() consumes the iterator: its cursors stay on record, no call follows
IterCallLast ==
    /\ iter.active
    /\ ~panicked
    /\ ret' = IterLast(runs, iter)
    /\ iter' = [iter EXCEPT !.active = FALSE, !.last = IterLast(runs, iter),
                            !.called = "last"]
    /\ op' = Call("last", 0, 0, 0, 0, <<>>)
    /\ UNCHANGED <<runs, overflow_checks, pre, panicked, other>>

IterAllNext ==
    \/ IterCallNext
    \/ IterCallNextBack
    \/ IterCallSizeHint
    \/ IterCallNth
    \/ IterCallLast

SpecIterAll == IterInit /\ [][IterAllNext]_vars

(***************************************************************************)
(* Containers built by coalescing construction: from a slice, by push and  *)
(* by extend, and flattened by to_vec.                                     *)
(***************************************************************************)
\* RleVec::from(slice): the container at hand gives way to the one built
DoFrom ==
    /\ ~panicked
    /\ op = NoCall \/ op.name = "to_vec"
    /\ \E slice \in SeqsUpTo(Values, MaxLen) :
        /\ runs' = FromSlice(slice)
        /\ op' = Call("from", 0, 0, 0, 0, slice)
    /\ pre' = runs
    /\ ret' = <<>>
    /\ UNCHANGED <<overflow_checks, panicked, iter, other>>

\* to_vec() on the container as the last call left it
DoToVec ==
    /\ ~panicked
    /\ op.name # "to_vec"
    /\ ret' = ToVec(runs)
    /\ op' = Call("to_vec", 0, 0, 0, 0, <<>>)
    /\ pre' = runs
    /\ UNCHANGED <<runs, overflow_checks, panicked, iter, other>>

FromNext ==
    \/ Forget
    \/ DoFrom
    \/ DoToVec
    \/ DoPush
    \/ DoExtend

SpecFrom == Init /\ [][FromNext]_vars

(***************************************************************************)
(* Two containers, each reached from new() by public mutations.            *)
(***************************************************************************)
\* the outcomes of every public mutation of the table t, over the arguments the
\* actions of Spec draw
Mutations(t, checks) ==
    LET gaps == 0 .. Len(t)
        room == {v \in Values : LenOf(t) < MaxLen}
    IN  {Push(t, v, checks) : v \in room}
        \cup {PushN(t, a[1], a[2], checks) :
                 a \in {b \in (0 .. IndexLimit - 1) \X Values :
                           \/ LenOf(t) + b[1] <= MaxLen
                           \/ Len(t) > 0 /\ RunsLast(t).end + b[1] >= IndexLimit}}
        \cup {Extend(t, values) :
                 values \in {w \in SeqsUpTo(Values, MaxExtend) :
                                LenOf(t) + Len(w) <= MaxLen}}
        \cup {ExtendRuns(t, rs, checks) :
                 rs \in {w \in SeqsUpTo({Run(len, v) : len \in 0 .. MaxExtend, v \in Values},
                                        MaxExtend) :
                            LenOf(t) + Len(FlattenRuns(w)) <= MaxLen}}
        \cup {Set(t, a[1], a[2], a[3]) : a \in (0 .. LenOf(t)) \X Values \X gaps}
        \cup {SetHint(t, a[1], a[2], a[3], a[4]) :
                 a \in (0 .. LenOf(t)) \X Values \X gaps \X gaps}
        \cup {SetRange(t, a[1], a[2], a[3], a[4], checks) :
                 a \in {b \in (0 .. LenOf(t)) \X (0 .. IndexLimit - 1) \X Values \X gaps :
                           b[1] + b[2] <= LenOf(t) + 1 \/ b[2] = IndexLimit - 1}}
        \cup {Insert(t, a[1], a[2], a[3], checks) :
                 a \in (0 .. LenOf(t) + 1) \X room \X gaps}
        \cup {Remove(t, a[1], a[2], checks) : a \in (0 .. LenOf(t)) \X gaps}
        \cup {Clear(t)}

\* both containers start as new(), in a build that checks overflow: no end wraps
PairInit ==
    /\ Init
    /\ overflow_checks

\* a public mutation of the first container that returns normally; the containers
\* of a pair hold at most PairLen elements
PairMutate ==
    /\ EndsIncreasing(runs)
    /\ \E r \in Mutations(runs, overflow_checks) :
        /\ ~r.panic
        /\ LenOf(r.runs) <= PairLen
        /\ runs' = r.runs
    /\ UNCHANGED <<overflow_checks, pre, op, ret, panicked, iter, other>>

\* the container is set aside as the second one and a new() container takes its place
PairKeep ==
    /\ other = <<>>
    /\ runs # <<>>
    /\ other' = runs
    /\ runs' = <<>>
    /\ UNCHANGED <<overflow_checks, pre, op, ret, panicked, iter>>

PairNext ==
    \/ PairMutate
    \/ PairKeep

SpecPair == PairInit /\ [][PairNext]_vars

(***************************************************************************)
(* The read-only views of a container: its runs with their starts and      *)
(* lengths, and its elements read by index, by to_vec and by iter.  The    *)
(* containers are built by push and push_n, up to the one whose last end   *)
(* is the largest value of the index type.                                 *)
(***************************************************************************)
\* the Run a view yields
RunView(start, len, value) == [start |-> start, len |-> len, value |-> value]

\* runs()
RunsNew == [run_index |-> 0, last_end |-> 0]

\* Runs::next: end - last_end + 1 and end + 1 are computed in the index type
RunsNext(t, it, checks) ==
    IF it.run_index = Len(t) THEN [it |-> it, ret |-> <<>>, panic |-> FALSE]
    ELSE LET start == IF it.run_index = 0 THEN 0 ELSE it.last_end
             run == At(t, it.run_index)
             diff == run.end - it.last_end
         IN  IF checks /\ (diff < 0 \/ diff + 1 >= IndexLimit \/ run.end + 1 >= IndexLimit)
             THEN [it |-> it, ret |-> <<>>, panic |-> TRUE]
             ELSE [it |-> [run_index |-> it.run_index + 1,
                           last_end |-> (run.end + 1) % IndexLimit],
                   ret |-> <<RunView(start, (diff + 1) % IndexLimit, run.value)>>,
                   panic |-> FALSE]

\* every Run that next() yields from the iterator on
RECURSIVE RunsCollect(_, _, _)
RunsCollect(t, it, checks) ==
    LET r == RunsNext(t, it, checks)
        rest == RunsCollect(t, r.it, checks)
    IN  IF r.panic THEN [ret |-> <<>>, panic |-> TRUE]
        ELSE IF r.ret = <<>> THEN [ret |-> <<>>, panic |-> FALSE]
        ELSE IF rest.panic THEN [ret |-> <<>>, panic |-> TRUE]
        ELSE [ret |-> r.ret \o rest.ret, panic |-> FALSE]

\* the end + 1 of the records k .. Len(t) - 1
RECURSIVE StartsFrom(_, _)
StartsFrom(t, k) ==
    IF k >= Len(t) THEN <<>>
    ELSE <<(t[k].end + 1) % IndexLimit>> \o StartsFrom(t, k + 1)

\* starts()
Starts(t) == IF LenOf(t) = 0 THEN <<>> ELSE <<0>> \o StartsFrom(t, 1)

RECURSIVE EndsFrom(_, _)
EndsFrom(t, k) == IF k > Len(t) THEN <<>> ELSE <<t[k].end>> \o EndsFrom(t, k + 1)

\* ends()
Ends(t) == EndsFrom(t, 1)

\* last_run(): last.end + 1 - start is computed in the index type
LastRun(t, checks) ==
    LET start == IF Len(t) >= 2 THEN At(t, Len(t) - 2).end + 1 ELSE 0
        last == RunsLast(t)
    IN  IF Len(t) = 0 THEN [ret |-> <<>>, panic |-> FALSE]
        ELSE IF checks /\ (last.end + 1 >= IndexLimit \/ last.end + 1 < start)
        THEN [ret |-> <<>>, panic |-> TRUE]
        ELSE [ret |-> <<RunView(start, (last.end + 1 - start) % IndexLimit, last.value)>>,
              panic |-> FALSE]

\* whether r.end - p + 1 or p += n leaves the index type in to_vec, from record k on
RECURSIVE ToVecOverflows(_, _, _)
ToVecOverflows(t, k, p) ==
    IF k > Len(t) THEN FALSE
    ELSE LET diff == t[k].end - p
         IN  \/ diff < 0
             \/ diff + 1 >= IndexLimit
             \/ p + diff + 1 >= IndexLimit
             \/ ToVecOverflows(t, k + 1, p + diff + 1)

\* to_vec() as a call: the elements, or the panic of an overflow that is checked
ToVecCall(t, checks) ==
    IF checks /\ ToVecOverflows(t, 1, 0) THEN Result(t, <<>>, TRUE)
    ELSE Result(t, ToVec(t), FALSE)

\* every element that next() yields from the iterator on
RECURSIVE IterCollectFrom(_, _)
IterCollectFrom(t, it) ==
    LET nx == IterNext(t, it)
        rest == IterCollectFrom(t, [it EXCEPT !.index = nx.index,
                                              !.run_index = nx.run_index])
    IN  IF nx.panic THEN [ret |-> <<>>, panic |-> TRUE]
        ELSE IF nx.ret = <<>> THEN [ret |-> <<>>, panic |-> FALSE]
        ELSE IF rest.panic THEN [ret |-> <<>>, panic |-> TRUE]
        ELSE [ret |-> nx.ret \o rest.ret, panic |-> FALSE]

\* iter() and all it yields; iter() converts len() to the index type and panics
\* when it does not fit
IterCollect(t) ==
    IF LenOf(t) >= IndexLimit THEN Result(t, <<>>, TRUE)
    ELSE Result(t, IterCollectFrom(t, IterNew(t)).ret, IterCollectFrom(t, IterNew(t)).panic)

\* push_n with the count that takes the last end to the largest value of the
\* index type
DoFill ==
    /\ CanCall
    /\ Len(runs) > 0
    /\ LenOf(runs) < IndexLimit
    /\ \E v \in Values :
        Apply(Call("push_n", 0, IndexLimit - LenOf(runs), v, 0, <<>>),
              {PushN(runs, IndexLimit - LenOf(runs), v, overflow_checks)})

\* runs() drained by next()
DoRuns ==
    /\ CanCall
    /\ Apply(Call("runs", 0, 0, 0, 0, <<>>),
             {Result(runs, RunsCollect(runs, RunsNew, overflow_checks).ret,
                     RunsCollect(runs, RunsNew, overflow_checks).panic)})

DoStarts ==
    /\ CanCall
    /\ Apply(Call("starts", 0, 0, 0, 0, <<>>), {Result(runs, Starts(runs), FALSE)})

DoEnds ==
    /\ CanCall
    /\ Apply(Call("ends", 0, 0, 0, 0, <<>>), {Result(runs, Ends(runs), FALSE)})

DoLastRun ==
    /\ CanCall
    /\ Apply(Call("last_run", 0, 0, 0, 0, <<>>),
             {Result(runs, LastRun(runs, overflow_checks).ret,
                     LastRun(runs, overflow_checks).panic)})

\* to_vec() with its arithmetic in the index type
DoToVecCall ==
    /\ CanCall
    /\ Apply(Call("to_vec", 0, 0, 0, 0, <<>>), {ToVecCall(runs, overflow_checks)})

\* iter() drained by next()
DoIterCollect ==
    /\ CanCall
    /\ Apply(Call("iter", 0, 0, 0, 0, <<>>), {IterCollect(runs)})

ViewsNext ==
    \/ Forget
    \/ DoPush
    \/ DoPushN
    \/ DoFill
    \/ DoRuns
    \/ DoStarts
    \/ DoEnds
    \/ DoLastRun
    \/ DoToVecCall
    \/ DoIterCollect
    \/ DoIndex

SpecViews == Init /\ [][ViewsNext]_vars

(***************************************************************************)
(* Properties of the container.                                            *)
(***************************************************************************)
\* the position in the earlier table of the run that holds the index of the last call
PreRun == RunIndex(pre, op.index, 0).p

\* C1: in every state reached from the empty container by public mutations, no two
\* adjacent runs of the run table carry equal values.
C1_NoAdjacentEqualRuns == NoAdjacentEqual(runs)

\* C2: for every index < len(), remove(index) completes normally, returns the element
\* that was at index, decreases len() by exactly 1 and leaves the flattened sequence
\* with the element at index deleted.
C2_RemoveDeletesElement ==
    (op.name = "remove" /\ op.index < LenOf(pre)) =>
        /\ ~panicked
        /\ ret = <<ToVec(pre)[op.index + 1]>>
        /\ LenOf(runs) = LenOf(pre) - 1
        /\ ToVec(runs) = RemoveAt(ToVec(pre), op.index)

\* C3: insert(i, v) with i <= len() followed immediately by remove(i) returns v and
\* restores the flattened sequence and the run table the container had before the insert.
C3_InsertThenRemoveRestores ==
    [][(/\ op.name = "insert"
        /\ op.index <= LenOf(pre)
        /\ ~panicked
        /\ op'.name = "remove"
        /\ op'.index = op.index)
       => (/\ ~panicked'
           /\ ret' = <<op.value>>
           /\ runs' = pre
           /\ ToVec(runs') = ToVec(pre))]_vars

\* I1 - I4 of a run table: ends strictly increasing, no adjacent equal values, and
\* the last end one less than the number of elements the runs expand to
InvariantsHold(t) ==
    /\ EndsIncreasing(t)
    /\ NoAdjacentEqual(t)
    /\ Len(t) > 0 => RunsLast(t).end = Len(ToVec(t)) - 1

\* the last call was a push, push_n, extend, set, set_hint, set_range or insert whose
\* arguments are in range: indices inside the container, the new length inside the
\* index type
InRangeWrite ==
    \/ op.name \in {"push", "push_n"} /\ LenOf(pre) + op.n <= IndexLimit
    \/ op.name = "extend"
    \/ op.name \in {"set", "set_hint"} /\ op.index < LenOf(pre)
    \/ op.name = "set_range" /\ op.index + op.n <= LenOf(pre)
    \/ op.name = "insert" /\ op.index <= LenOf(pre)

\* C4: a run table that satisfies I1 - I4 before a push, push_n, extend(values), set,
\* set_hint, set_range or insert with in-range arguments satisfies them after the call.
C4_WritesPreserveInvariants ==
    (InRangeWrite /\ InvariantsHold(pre)) => (~panicked /\ InvariantsHold(runs))

\* a set_range over a table in canonical form that merged runs away
C4_Witness ==
    /\ op.name = "set_range"
    /\ InRangeWrite
    /\ InvariantsHold(pre)
    /\ op.n >= 2
    /\ Len(runs) + 2 <= Len(pre)

\* C5: in every reachable state the stored ends are strictly increasing, len() is the
\* last end + 1, and is_empty() iff runs_len() = 0 iff len() = 0.
C5_EndsIncreasingLenFromLastEnd ==
    /\ EndsIncreasing(runs)
    /\ \A k \in 1 .. Len(runs) : LenOf(SubSeq(runs, 1, k)) >= k
    /\ IsEmpty(runs) <=> RunsLen(runs) = 0
    /\ RunsLen(runs) = 0 <=> LenOf(runs) = 0
    /\ Len(runs) > 0 => LenOf(runs) = RunsLast(runs).end + 1

\* C6: for every index i < len() and value v, after set(i, v) reading index i returns
\* v, every other index reads the value it read before, and len() is unchanged.
C6_SetWritesOneElement ==
    (op.name = "set" /\ op.index < LenOf(pre)) =>
        /\ ~panicked
        /\ LenOf(runs) = LenOf(pre)
        /\ \A j \in 0 .. LenOf(pre) - 1 : \A g \in 0 .. Len(runs) :
              IndexRead(runs, j, g) =
                  IF j = op.index THEN <<op.value>> ELSE IndexRead(pre, j, 0)

\* a set inside a run, which split it in three
C6_Witness ==
    /\ op.name = "set"
    /\ op.index < LenOf(pre)
    /\ ~panicked
    /\ Len(runs) = Len(pre) + 2

\* set(i, v) for every i of [start, start + n), in order
RECURSIVE SetEach(_, _, _, _)
SetEach(t, start, n, v) ==
    IF n = 0 THEN t ELSE SetEach(Set(t, start, v, 0).runs, start + 1, n - 1, v)

\* C7: for every table, start s and length n with s + n <= len() and value v,
\* set_range(s, n, v) leaves the flattened sequence that set(i, v) for each i of
\* [s, s + n) leaves; the elements outside [s, s + n) and len() are unchanged.
C7_SetRangeMatchesSetLoop ==
    (op.name = "set_range" /\ op.index + op.n <= LenOf(pre)) =>
        /\ ~panicked
        /\ ToVec(runs) = ToVec(SetEach(pre, op.index, op.n, op.value))
        /\ LenOf(runs) = LenOf(pre)
        /\ \A j \in 0 .. LenOf(pre) - 1 :
              (j < op.index \/ j >= op.index + op.n) =>
                  ToVec(runs)[j + 1] = ToVec(pre)[j + 1]

\* a set_range that starts inside one run and ends inside another, neither of its value
C7_Witness ==
    /\ op.name = "set_range"
    /\ op.n >= 2
    /\ op.index + op.n <= LenOf(pre)
    /\ ~panicked
    /\ RunIndex(pre, op.index, 0).p < RunIndex(pre, op.index + op.n - 1, 0).p
    /\ ~FlushLeft(pre, op.index, RunIndex(pre, op.index, 0).p)
    /\ ~FlushRight(pre, op.index + op.n - 1, RunIndex(pre, op.index + op.n - 1, 0).p)
    /\ Len(runs) = Len(pre) + 1

\* C8: for every index i <= len() and value v, insert(i, v) increases len() by exactly
\* 1 and leaves the flattened sequence with v inserted at position i; insert at
\* i = len() behaves as push.
C8_InsertAddsElement ==
    (op.name = "insert" /\ op.index <= LenOf(pre)) =>
        /\ ~panicked
        /\ LenOf(runs) = LenOf(pre) + 1
        /\ ToVec(runs) = InsertAt(ToVec(pre), op.index, op.value)
        /\ op.index = LenOf(pre) => runs = Push(pre, op.value, overflow_checks).runs

\* an insert inside a run, which split it in three
C8_Witness ==
    /\ op.name = "insert"
    /\ op.index < LenOf(pre)
    /\ ~panicked
    /\ Len(runs) = Len(pre) + 2

\* C9: after the removal of an element that formed a run of length 1, if the run
\* before it and the run after it carry equal values and at least two records remain,
\* those two runs are merged into a single run.
C9_RemoveMergesNeighbours ==
    (/\ op.name = "remove"
     /\ op.index < LenOf(pre)
     /\ ~panicked
     /\ PreRun > 0
     /\ PreRun + 1 < Len(pre)
     /\ At(pre, PreRun).end = At(pre, PreRun - 1).end + 1
     /\ At(pre, PreRun - 1).value = At(pre, PreRun + 1).value
     /\ Len(pre) - 1 >= 2)
    => (/\ Len(runs) = Len(pre) - 2
        /\ At(runs, PreRun - 1) =
               InternalRun(At(pre, PreRun + 1).end - 1, At(pre, PreRun - 1).value))

\* the last call was an access with an index outside the container
OutOfRangeAccess ==
    \/ op.name \in {"index", "run_index", "set", "remove"} /\ op.index >= LenOf(pre)
    \/ op.name = "insert" /\ op.index > LenOf(pre)
    \/ op.name = "set_range" /\ op.n >= 1 /\ op.index + op.n - 1 >= LenOf(pre)

\* C11: an indexed read, run_index, set or remove at an index >= len(), an insert at
\* an index > len(), or a set_range whose last index is >= len() aborts the call and
\* leaves the run table exactly as it was before the call.
C11_OutOfRangeAborts == OutOfRangeAccess => (panicked /\ runs = pre)

\* C12: for any two containers each reached by a sequence of public operations, their
\* run tables are equal record by record (the derived PartialEq) if and only if their
\* flattened contents are equal.
C12_EqualityIsContentEquality == (runs = other) <=> (ToVec(runs) = ToVec(other))

\* C13: for every flat sequence s, to_vec(RleVec::from(s)) = s; and for every table t
\* built by coalescing construction (from a slice, push, extend), RleVec::from of
\* to_vec(t) is a table equal to t.
C13_RoundTrip ==
    [][/\ (op.name = "from" /\ op'.name = "to_vec") => ret' = op.values
       /\ (op.name = "to_vec" /\ op'.name = "from" /\ op'.values = ret) => runs' = runs]_vars

\* a table of three runs was flattened and built again from the flattening
C13_Witness ==
    /\ op.name = "from"
    /\ Len(pre) >= 3
    /\ op.values = ToVec(pre)
    /\ Len(op.values) = MaxLen
    /\ runs = pre

\* push(v) for every v of values, in order
RECURSIVE PushEach(_, _, _)
PushEach(t, values, checks) ==
    IF Len(values) = 0 THEN t
    ELSE PushEach(Push(t, values[1], checks).runs, Tail(values), checks)

\* C14: for every table and every value sequence, extend(values) leaves exactly the
\* table that push(v) for each value in order leaves, also when the first value equals
\* the value of the last run; on a new container (from_iter) that table is the one
\* From<&[T]> builds; an empty sequence leaves the table unchanged.
C14_ExtendMatchesPushes ==
    op.name = "extend" =>
        /\ ~panicked
        /\ runs = PushEach(pre, op.values, overflow_checks)
        /\ pre = <<>> => runs = FromSlice(op.values)
        /\ op.values = <<>> => runs = pre

\* an extend whose first value continued the last run and whose second opened a run
C14_Witness ==
    /\ op.name = "extend"
    /\ Len(pre) > 0
    /\ Len(op.values) = 2
    /\ RunsLast(pre).value = op.values[1]
    /\ op.values[2] # op.values[1]
    /\ Len(runs) = Len(pre) + 1

\* C15: push_n(n, v) whose resulting length fits the index type: with n = 0 the table
\* is unchanged; with n > 0 len() grows by n, and either the last run's end grows by n
\* with runs_len unchanged (the last run's value equals v) or exactly one run is
\* appended with end = previous last end + n (n - 1 on an empty table); the table is
\* the one n successive push(v) calls leave.
C15_PushNAppendsOneRun ==
    (op.name = "push_n" /\ LenOf(pre) + op.n <= IndexLimit) =>
        /\ ~panicked
        /\ op.n = 0 => runs = pre
        /\ op.n > 0 =>
              /\ LenOf(runs) = LenOf(pre) + op.n
              /\ IF Len(pre) > 0 /\ RunsLast(pre).value = op.value
                 THEN /\ RunsLen(runs) = RunsLen(pre)
                      /\ runs = SetEnd(pre, Len(pre) - 1, RunsLast(pre).end + op.n)
                 ELSE runs = Append(pre, InternalRun(LenOf(pre) + op.n - 1, op.value))
        /\ runs = PushEach(pre, Repeat(op.value, op.n), overflow_checks)

\* a push_n of several elements that lengthened the last run
C15_Witness ==
    /\ op.name = "push_n"
    /\ op.n >= 2
    /\ Len(pre) >= 2
    /\ RunsLast(pre).value = op.value
    /\ ~panicked
    /\ Len(runs) = Len(pre)
    /\ LenOf(runs) = LenOf(pre) + op.n

\* the last call was an extend(runs) in which a supplied run of at least one element
\* follows a run of the same value: the last run of the table, or the supplied run
\* before it
SharedBoundary ==
    /\ op.name = "extend_runs"
    /\ ~panicked
    /\ \/ /\ Len(pre) > 0
          /\ Len(op.values) > 0
          /\ op.values[1].len > 0
          /\ op.values[1].value = RunsLast(pre).value
       \/ \E k \in 1 .. Len(op.values) - 1 :
             /\ op.values[k].len > 0
             /\ op.values[k + 1].len > 0
             /\ op.values[k].value = op.values[k + 1].value

\* C16 as stated: extend(runs) does not coalesce at boundaries; when the first supplied
\* run has the value of the existing last run, or two consecutive supplied runs share
\* a value, the resulting table contains two adjacent equal-valued runs.
C16_ExtendRunsKeepsBoundaries == SharedBoundary => ~NoAdjacentEqual(runs)

\* C16, amended: extend(runs) appends every run with push_n and so coalesces at the
\* boundaries; the content is the old content followed by the elements of the runs,
\* no run is stored next to a run of the same value unless the table already held such
\* a pair, and a supplied run that continues the value before it adds no record.
C16_ExtendRunsCoalesces ==
    op.name = "extend_runs" =>
        /\ ~panicked
        /\ ToVec(runs) = ToVec(pre) \o FlattenRuns(op.values)
        /\ NoAdjacentEqual(pre) => NoAdjacentEqual(runs)
        /\ SharedBoundary =>
              Len(runs) < Len(pre) +
                  Cardinality({k \in 1 .. Len(op.values) : op.values[k].len > 0})

\* an extend(runs) of two runs that both continued the last run of the table
C16_Witness ==
    /\ SharedBoundary
    /\ Len(pre) >= 2
    /\ NoAdjacentEqual(pre)
    /\ Len(op.values) = 2
    /\ op.values[1].len > 0
    /\ op.values[2].len > 0
    /\ op.values[1].value = RunsLast(pre).value
    /\ op.values[2].value = RunsLast(pre).value
    /\ Len(runs) = Len(pre)

\* C19: for every index < len() and every hint position, also a hint >= runs_len()
\* or one whose run does not cover index, get_hint(index, hint) returns the value at
\* index and the position of the run that contains index; a wrong hint falls back to
\* the binary search instead of failing.
C19_GetHintFallsBack ==
    (op.name = "get_hint" /\ op.index < LenOf(pre)) =>
        /\ ~panicked
        /\ ret = <<ToVec(pre)[op.index + 1], PreRun>>

\* C20: for every index < len(), value and hint (valid, stale, or >= runs_len()),
\* set_hint(index, value, hint) leaves the table set(index, value) would leave and
\* returns the position of the run that contained index before the write.
C20_SetHintMatchesSet ==
    (op.name = "set_hint" /\ op.index < LenOf(pre)) =>
        /\ ~panicked
        /\ runs = Set(pre, op.index, op.value, 0).runs
        /\ ret = <<PreRun>>

\* a set_hint with a hint that names a run before the one holding index, which split
\* that run in three
C20_Witness ==
    /\ op.name = "set_hint"
    /\ op.index < LenOf(pre)
    /\ op.hint < PreRun
    /\ ~panicked
    /\ Len(runs) = Len(pre) + 2

\* the first index of the run of the earlier table that holds the index of the last call
PreStart == IF PreRun = 0 THEN 0 ELSE At(pre, PreRun - 1).end + 1

\* C21: one set(i, v) changes runs_len() by at most 2 in either direction: by 0, with
\* the table unchanged, when the stored value already equals v; by +2 only when i lies
\* in the interior of a run; by -2 only when a run of length 1 is overwritten with the
\* value of both of its neighbours.
C21_SetChangesRunsLenByAtMostTwo ==
    (op.name = "set" /\ op.index < LenOf(pre)) =>
        /\ ~panicked
        /\ RunsLen(runs) - RunsLen(pre) \in -2 .. 2
        /\ At(pre, PreRun).value = op.value => runs = pre
        /\ RunsLen(runs) = RunsLen(pre) + 2 =>
              PreStart < op.index /\ op.index < At(pre, PreRun).end
        /\ RunsLen(runs) = RunsLen(pre) - 2 =>
              /\ PreStart = At(pre, PreRun).end
              /\ PreRun > 0
              /\ PreRun + 1 < RunsLen(pre)
              /\ At(pre, PreRun - 1).value = op.value
              /\ At(pre, PreRun + 1).value = op.value

\* a set that overwrote a run of length 1 with the value of both neighbours
C21_Witness ==
    /\ op.name = "set"
    /\ op.index < LenOf(pre)
    /\ ~panicked
    /\ NoAdjacentEqual(pre)
    /\ RunsLen(pre) >= 4
    /\ RunsLen(runs) = RunsLen(pre) - 2

\* the smallest run position of t whose end is >= index
SmallestCovering(t, index) ==
    CHOOSE p \in 0 .. Len(t) - 1 :
        /\ At(t, p).end >= index
        /\ \A q \in 0 .. p - 1 : At(t, q).end < index

\* C22: for every index < len() and every placement of the storage gap, run_index(index)
\* returns the smallest run position p whose end >= index, and index_info returns that p
\* with start = end of run p - 1 plus 1 (0 for p = 0) and end = end of run p.
C22_RunIndexSmallestCovering ==
    (op.name = "run_index" /\ op.index < LenOf(pre)) =>
        LET p == SmallestCovering(pre, op.index)
        IN  /\ ~panicked
            /\ ret = <<p>>
            /\ \A gap \in 0 .. Len(pre) :
                  /\ RunIndex(pre, op.index, gap) = [panic |-> FALSE, p |-> p]
                  /\ IndexInfo(pre, op.index, gap) =
                         [panic |-> FALSE, p |-> p,
                          start |-> IF p = 0 THEN 0 ELSE At(pre, p - 1).end + 1,
                          end |-> At(pre, p).end]

\* run_index found an index in the fourth run of a table
C22_Witness ==
    /\ op.name = "run_index"
    /\ op.index < LenOf(pre)
    /\ Len(pre) >= 4
    /\ ~panicked
    /\ ret = <<3>>

\* C23: push_n (and push) fails when the resulting length would exceed the range of
\* the index type; the stored end never silently wraps around to a smaller value.
C23_PushNOverflowFails ==
    (op.name \in {"push", "push_n"} /\ LenOf(pre) + op.n > IndexLimit) =>
        /\ panicked
        /\ runs = pre

\* the view of the record at position i that the stored ends determine
ViewAt(t, i) ==
    LET start == IF i = 0 THEN 0 ELSE At(t, i - 1).end + 1
    IN  RunView(start, At(t, i).end - start + 1, At(t, i).value)

RECURSIVE SumLens(_)
SumLens(views) == IF Len(views) = 0 THEN 0 ELSE views[1].len + SumLens(Tail(views))

\* C24: the run views follow from the stored ends: runs() yields for every position
\* i the start 0 (i = 0) or end[i-1] + 1 and the len end[i] - start + 1, starts()[i]
\* is that start, ends()[i] is end[i], last_run() is the last of these views, and the
\* lens add up to len(); over the empty container runs(), starts() and ends() are
\* empty and last_run() is None.
C24_RunViewsMatchEnds ==
    /\ op.name = "runs" =>
           /\ ~panicked
           /\ Len(ret) = Len(pre)
           /\ \A i \in 0 .. Len(pre) - 1 : ret[i + 1] = ViewAt(pre, i)
           /\ SumLens(ret) = LenOf(pre)
    /\ op.name = "starts" =>
           /\ Len(ret) = Len(pre)
           /\ \A i \in 0 .. Len(pre) - 1 : ret[i + 1] = ViewAt(pre, i).start
    /\ op.name = "ends" =>
           /\ Len(ret) = Len(pre)
           /\ \A i \in 0 .. Len(pre) - 1 : ret[i + 1] = At(pre, i).end
    /\ op.name = "last_run" =>
           /\ ~panicked
           /\ ret = IF Len(pre) = 0 THEN <<>> ELSE <<ViewAt(pre, Len(pre) - 1)>>

\* the same on containers whose last end is below the largest value of the index type
C24_BelowFullRange ==
    LenOf(pre) < IndexLimit => C24_RunViewsMatchEnds

\* a sequence holds exactly the elements of t that the indexed read returns
MatchesIndexedReads(elements, t) ==
    /\ Len(elements) = LenOf(t)
    /\ \A i \in 0 .. LenOf(t) - 1 : \A gap \in 0 .. Len(t) :
           IndexRead(t, i, gap) = <<elements[i + 1]>>

\* C25: in every reachable state the read paths agree: to_vec() and iter() both have
\* exactly len() elements, and for every i < len() their i-th element is the value
\* the indexed read rle[i] returns.
C25_ReadPathsAgree ==
    op.name \in {"to_vec", "iter"} =>
        /\ ~panicked
        /\ MatchesIndexedReads(ret, pre)

\* the same on containers whose last end is below the largest value of the index type
C25_BelowFullRange ==
    LenOf(pre) < IndexLimit => C25_ReadPathsAgree

\* C27: remove(index) with index < len() reads and writes the run table only at
\* positions < runs_len(), so it returns normally; in particular when it removes the
\* final element and the last run has length 1, whatever the number of runs.  (A
\* remove of an index in range whose run has a stored end above 0 panics only by an
\* access past the table.)
C27_RemoveStaysInTable ==
    (op.name = "remove" /\ op.index < LenOf(pre) /\ At(pre, PreRun).end > 0) =>
        ~panicked

\* the same on tables of at most three runs
C27_UpToThreeRuns ==
    Len(pre) <= 3 => C27_RemoveStaysInTable

\* C28: remove never takes a stored end below 0: remove(0) on a table whose first
\* run has length 1 (stored end 0) returns that element and leaves the remaining
\* elements, with no underflow in the loop that decrements the ends.
C28_RemoveFirstOfLengthOne ==
    (op.name = "remove" /\ Len(pre) > 0 /\ op.index = 0 /\ At(pre, 0).end = 0) =>
        /\ ~panicked
        /\ ret = <<At(pre, 0).value>>
        /\ ToVec(runs) = Tail(ToVec(pre))

\* the same in a build that does not check overflow
C28_WithoutOverflowChecks ==
    ~overflow_checks => C28_RemoveFirstOfLengthOne

\* C29: the position set_hint returns is a valid hint for the table it leaves: it
\* is < runs_len(), so a following get_hint or set_hint that passes it as the hint
\* succeeds on every index in range, also after a write that merged a last run of
\* length 1 into the run before it.
C29_SetHintReturnsValidHint ==
    (op.name = "set_hint" /\ op.index < LenOf(pre) /\ ~panicked) =>
        /\ ret[1] < RunsLen(runs)
        /\ \A index \in 0 .. LenOf(runs) - 1 : \A gap \in 0 .. Len(runs) :
               /\ ~GetHint(runs, index, ret[1], gap, overflow_checks).panic
               /\ \A v \in Values : ~SetHint(runs, index, v, ret[1], gap).panic

\* the same for the writes that leave at least as many runs as they found
C29_WithoutMerge ==
    Len(runs) >= Len(pre) => C29_SetHintReturnsValidHint

(***************************************************************************)
(* Properties of the iterator.                                             *)
(***************************************************************************)
\* C10: over a container of N elements, any interleaving of next() and next_back()
\* yields exactly the N elements, each once: next() in ascending index order,
\* next_back() in descending index order, and once the two cursors meet both
\* return None.
C10_DoubleEndedIteration ==
    iter.active =>
        LET flat == ToVec(runs)
            N == Len(flat)
        IN  /\ ~panicked
            /\ Len(iter.front) + Len(iter.back) <= N
            /\ iter.index = Len(iter.front)
            /\ iter.index_back = N - Len(iter.back)
            /\ \A k \in 1 .. Len(iter.front) : iter.front[k] = flat[k]
            /\ \A k \in 1 .. Len(iter.back) : iter.back[k] = flat[N - k + 1]
            /\ (iter.called # "none" /\ iter.last = <<>>) =>
                   Len(iter.front) + Len(iter.back) = N
            /\ Len(iter.front) + Len(iter.back) = N =>
                   /\ IterNext(runs, iter).ret = <<>>
                   /\ IterNextBack(runs, iter, overflow_checks).ret = <<>>

\* both ends were used over several runs, and the iterator has returned None
C10_Witness ==
    /\ iter.active
    /\ Len(runs) >= 3
    /\ Len(iter.front) >= 1
    /\ Len(iter.back) >= 2
    /\ iter.called # "none"
    /\ iter.last = <<>>
    /\ iter.front \o [k \in 1 .. Len(iter.back) |->
                         iter.back[Len(iter.back) + 1 - k]] = ToVec(runs)

\* C17: at every point of an iteration the remaining-count queries (size_hint,
\* ExactSizeIterator::len and count, which all return the value size_hint computes)
\* equal the distance between the forward and the backward cursor, the number of
\* elements neither next() nor next_back() has yielded.
C17_SizeHintIsCursorDistance ==
    (iter.active /\ iter.called = "size_hint") =>
        ret = <<iter.index_back - iter.index>>

\* next() called k times: the iterator it leaves, the last result, whether it panicked
RECURSIVE NextTimes(_, _, _)
NextTimes(t, it, k) ==
    LET nx == IterNext(t, it)
        after == [it EXCEPT !.index = nx.index, !.run_index = nx.run_index]
    IN  IF nx.panic THEN [it |-> after, ret |-> <<>>, panic |-> TRUE]
        ELSE IF k = 1 THEN [it |-> after, ret |-> nx.ret, panic |-> FALSE]
        ELSE NextTimes(t, after, k - 1)

\* what next() yields from the iterator on, up to fuel calls; a panic ends it with 0
RECURSIVE Drain(_, _, _)
Drain(t, it, fuel) ==
    LET nx == IterNext(t, it)
    IN  IF fuel = 0 THEN <<>>
        ELSE IF nx.panic THEN <<0>>
        ELSE IF nx.ret = <<>> THEN <<>>
        ELSE nx.ret \o Drain(t, [it EXCEPT !.index = nx.index, !.run_index = nx.run_index],
                             fuel - 1)

\* C18: in every iterator state, also over an empty container and after next_back(),
\* nth(n) returns what n + 1 calls of next() return last, and leaves the iterator
\* yielding the elements those calls of next() would leave it yielding.
C18_NthMatchesRepeatedNext ==
    [][(iter.active /\ iter'.called = "nth") =>
          LET want == NextTimes(runs, iter, op'.n + 1)
          IN  /\ ~panicked'
              /\ ret' = want.ret
              /\ Drain(runs, iter', MaxLen + 1) = Drain(runs, want.it, MaxLen + 1)]_vars

\* C26: in every iterator state, also after next_back() and after the two cursors
\* have met, last() returns the element that draining the iterator with next()
\* yields last, and None when no element remains.
C26_LastIsLastOfDrain ==
    iter.called = "last" =>
        LET rest == Drain(runs, iter, MaxLen + 1)
        IN  ret = IF rest = <<>> THEN <<>> ELSE <<rest[Len(rest)]>>

\* the same while next_back() has yielded nothing
C26_BeforeNextBack ==
    (iter.called = "last" /\ iter.index_back = LenOf(runs)) => C26_LastIsLastOfDrain

=============================================================================
